---- MODULE Spec2Model ----
(***************************************************************************)
(* doc_safe backend: the authenticated file-lifecycle routes               *)
(* (server/src/routes/files.ts) behind requireAuth                         *)
(* (server/src/middleware/auth.ts), running against an external object     *)
(* store (bucket 'user-uploads') and an external metadata table            *)
(* (public.files, server/schema.sql).                                      *)
(*                                                                         *)
(* Every request is an async function: its code runs atomically between    *)
(* two awaits, and requests interleave at the awaits.  One action of the   *)
(* model is the return of one awaited call together with the code that     *)
(* runs up to the next await (or to the response).  An awaited call has    *)
(* three outcomes: it returns a result without error ("ok"), it returns a  *)
(* result carrying an error ("error"), or its promise rejects ("throw").   *)
(* A call that does not return "ok" has no effect on the store.            *)
(***************************************************************************)
EXTENDS Integers, Sequences, FiniteSets, TLC

\* ---------------------------------------------------------------- bounds
\* number of requests that arrive in one behaviour
MaxReq == 2
\* number of requests of the owner in the lifecycle scenario
MaxLife == 5
\* number of uploads in the lifecycle scenario
MaxUploads == 3
\* number of requests that arrive once a file has been uploaded
MaxDel == 4

\* ------------------------------------------------------ program constants
FileSizeLimit == 10 * 1024 * 1024
SignedUrlExpiry == 60 * 60

\* ------------------------------------------------------------ input sets
\* concurrently served requests
Slots == {"s1", "s2"}
Users == {"uA", "uB"}
Tokens == {"tokA", "tokB"}
\* the identity service's view of the tokens
TokenUser == [t \in Tokens |-> IF t = "tokA" THEN "uA" ELSE "uB"]
\* Authorization header, as authHeader.split(' ') sees it; <<>> is an absent header,
\* <<"Bearer">> a scheme alone and <<"Bearer", "">> a scheme followed by a blank
Headers == {<<>>, <<"Bearer">>, <<"Bearer", "">>} \cup {<<"Bearer", t>> : t \in Tokens}
Ops == {"upload", "list", "delete", "download"}
\* file.originalname, as originalname.split('.') sees it
FileNames == {<<"notes", "txt">>, <<"README">>}
\* file.size of the files within the limit
SizeOfFile == [n \in FileNames |-> IF n = <<"README">> THEN 11 ELSE 10]
File(name, size) == [originalname |-> name, mimetype |-> "text/plain", size |-> size]
\* the multipart body: no 'file' part, a file within the limit, or one beyond it
Files == {<<>>} \cup {<<File(n, SizeOfFile[n])>> : n \in FileNames}
              \cup {<<File(<<"big", "bin">>, FileSizeLimit + 1)>>}
\* req.params.id
IdParams == {1, 2}
Outcomes == {"ok", "error", "throw"}

\* messages of the errors the collaborators return
StorageErrMsg == "storage error"
ExistsErrMsg == "The resource already exists"
DbErrMsg == "database error"
TooLargeMsg == "File too large"

VARIABLES
    rows,       \* public.files: the set of metadata rows
    objects,    \* bucket 'user-uploads': the set of paths that hold an object
    nextId,     \* uuid_generate_v4() of the table: next fresh row id
    nextUuid,   \* uuidv4() of the handler: next fresh random component
    clock,      \* NOW() of the table
    arrived,    \* number of requests that have arrived
    req,        \* per slot: the request being served and its locals
    answered,   \* the request the latest step has answered, if it answered one
    hist        \* history: the paths written so far, what the failure paths of Upload
                \* and Delete have done so far, and the ids whose Delete has succeeded

vars == <<rows, objects, nextId, nextUuid, clock, arrived, req, answered, hist>>

\* ------------------------------------------------------------- responses
\* optional values are sequences of length 0 or 1
Resp(status, error, details, message, file, list, url) ==
    [status |-> status, error |-> error, details |-> details, message |-> message,
     file |-> file, list |-> list, downloadUrl |-> url]

ErrResp(status, error) == Resp(status, <<error>>, <<>>, <<>>, <<>>, <<>>, <<>>)
\* mutant of ErrDetailsResp: the body is sent without its details field
ErrDetailsResp_NoDetails(status, error, details) == ErrResp(status, error)

\* res.status(status).json({ error, details })
ErrDetailsResp(status, error, details) ==
    Resp(status, <<error>>, <<details>>, <<>>, <<>>, <<>>, <<>>)
InternalErrorResp == ErrResp(500, "Internal Server Error")
NotFoundResp == ErrResp(404, "File not found")
UnauthorizedResp == ErrResp(401, "Unauthorized")

\* one record of the call log
Call(name, path, result) == [call |-> name, path |-> path, result |-> result]

IdleReq ==
    [pc |-> "idle", op |-> "none", header |-> <<>>, user |-> <<>>, verified |-> FALSE,
     entered |-> 0, id |-> 0, body |-> <<>>, file |-> <<>>, fileName |-> <<>>, storagePath |-> <<>>,
     dbError |-> <<>>, fileRecord |-> <<>>, lookup |-> "none", calls |-> <<>>,
     resp |-> <<>>]

\* res.status(..).json(..): the response is sent and the request is over
Send(r, response) == [r EXCEPT !.pc = "done", !.resp = Append(r.resp, response)]
Logged(r, c) == [r EXCEPT !.calls = Append(r.calls, c)]

\* ------------------------------------------------------------------ Init
Init ==
    /\ rows = {}
    /\ objects = {}
    /\ nextId = 1
    /\ nextUuid = 1
    /\ clock = 1
    /\ arrived = 0
    /\ req = [s \in Slots |-> IdleReq]
    /\ answered = <<>>
    /\ hist = [written |-> {}, failedInserts |-> {}, compensated |-> {}, window |-> FALSE,
               deleted |-> {}]

\* ----------------------------------------------------------- requireAuth
\* mutant of AuthRejects: the guard forgets the error and looks at the user only
AuthRejects_UserOnly(reply) == reply.user = <<>>

\* auth.ts:37: the guard on the reply of auth.getUser
AuthRejects(reply) == reply.error \/ reply.user = <<>>

\* the replies auth.getUser can return for a token: data.user and error
GetUserReplies(token) ==
    [user : {<<>>, <<TokenUser[token]>>}, error : BOOLEAN]

\* the identity verifier has succeeded: a user and no error
VerifySucceeded(reply) == ~reply.error /\ reply.user # <<>>

\* auth.ts:28-30: authHeader.split(' ')[1] is undefined or empty
NoToken(header) == Len(header) < 2 \/ header[2] = ""

\* a slot is free when it serves no request
Free(s) == req[s].pc = "idle"

\* one step of the request on slot s leaves it as r: a request that has been
\* answered frees its slot, and answered holds it until the next step
Step(s, r) ==
    /\ req' = [req EXCEPT ![s] = IF r.pc = "done" THEN IdleReq ELSE r]
    /\ answered' = IF r.pc = "done" THEN <<r>> ELSE <<>>

\* auth.ts:21-35: a request is served on the first free slot; requireAuth runs up
\* to its await
Receive(s, op, header) ==
    /\ Free(s)
    /\ \A t \in Slots : Free(t) => s = t \/ s = "s1"
    /\ LET r == [IdleReq EXCEPT !.op = op, !.header = header]
       IN Step(s,
            IF header = <<>>
            THEN Send(r, ErrResp(401, "Missing Authorization header"))
            ELSE IF NoToken(header)
            THEN Send(r, ErrResp(401, "Missing Bearer token"))
            ELSE [r EXCEPT !.pc = "awaitGetUser"])
    /\ UNCHANGED <<rows, objects, nextId, nextUuid, clock, hist>>

\* a request arrives
Arrive(s, op, header) ==
    /\ arrived < MaxReq
    /\ arrived' = arrived + 1
    /\ Receive(s, op, header)

\* ----------------------------------------------------- the metadata table
\* mutant of SelectOne: the lookup forgets .eq('owner_id', owner)
SelectOne_IdOnly(rs, id, owner) == {row \in rs : row.id = id}

\* .eq('id', id).eq('owner_id', owner): the rows the predicate selects
SelectOne(rs, id, owner) == {row \in rs : row.id = id /\ row.owner_id = owner}

\* .single(): the row when exactly one is selected, otherwise no data and an error
Single(matching) ==
    IF Cardinality(matching) = 1
    THEN [data |-> <<CHOOSE row \in matching : TRUE>>, error |-> FALSE]
    ELSE [data |-> <<>>, error |-> TRUE]

\* mutant of SelectByOwner: the listing forgets .eq('owner_id', owner)
SelectByOwner_All(rs, owner) == rs

\* .eq('owner_id', owner): the rows of the listing
SelectByOwner(rs, owner) == {row \in rs : row.owner_id = owner}

\* mutant of OrderDesc: the rows are ordered with ascending: true
RECURSIVE OrderDesc_Ascending(_)
OrderDesc_Ascending(S) ==
    IF S = {} THEN <<>>
    ELSE LET first == CHOOSE x \in S : \A y \in S : y.created_at >= x.created_at
         IN <<first>> \o OrderDesc_Ascending(S \ {first})

\* .order('created_at', { ascending: false })
RECURSIVE OrderDesc(_)
OrderDesc(S) ==
    IF S = {} THEN <<>>
    ELSE LET first == CHOOSE x \in S : \A y \in S : y.created_at <= x.created_at
         IN <<first>> \o OrderDesc(S \ {first})

\* mutant of DeleteRows: the row is kept and marked as deleted
DeleteRows_Tombstone(rs, id, owner) ==
    {IF row.id = id /\ row.owner_id = owner
     THEN [row EXCEPT !.original_filename = <<"deleted">>]
     ELSE row : row \in rs}

\* .delete().eq('id', id).eq('owner_id', owner)
DeleteRows(rs, id, owner) == {row \in rs : ~(row.id = id /\ row.owner_id = owner)}

\* mutant of NewRow: the row records the path without the owner's folder
NewRow_PathWithoutOwner(id, now, path, file, owner) ==
    [id |-> id, storage_path |-> [path EXCEPT !.owner = ""],
     original_filename |-> file.originalname, file_type |-> file.mimetype,
     file_size |-> file.size, owner_id |-> owner, created_at |-> now]

\* the row the table stores for an insert: id and created_at are its defaults
NewRow(id, now, path, file, owner) ==
    [id |-> id, storage_path |-> path, original_filename |-> file.originalname,
     file_type |-> file.mimetype, file_size |-> file.size, owner_id |-> owner,
     created_at |-> now]

\* ------------------------------------------------------ the upload route
\* files.ts:28: file.originalname.split('.').pop()
FileExt(originalname) == originalname[Len(originalname)]

\* mutant of FileName: the path is derived without the owner's folder
FileName_NoOwner(userId, uuid, fileExt) == [owner |-> "", uuid |-> uuid, ext |-> fileExt]

\* files.ts:29: `${user.id}/${uuidv4()}.${fileExt}`
FileName(userId, uuid, fileExt) == [owner |-> userId, uuid |-> uuid, ext |-> fileExt]

\* the path of a storage locator starts with `${userId}/`
StartsWithOwner(path, userId) == path.owner = userId

\* the handlers proper, entered by next() with req.user set (or not); entered
\* counts the calls of next()
HandlerEntry(r, id) ==
    LET h == [r EXCEPT !.entered = @ + 1]
    IN IF h.op = "upload" THEN [h EXCEPT !.pc = "multer"]
       ELSE IF h.user = <<>> THEN Send(h, UnauthorizedResp)
       ELSE IF h.op = "list" THEN [h EXCEPT !.pc = "awaitList"]
       ELSE IF h.op = "delete" THEN [h EXCEPT !.pc = "awaitDelFetch", !.id = id]
       ELSE [h EXCEPT !.pc = "awaitDlFetch", !.id = id]

\* auth.ts:35-47: auth.getUser returns; on success req.user is set and next() runs
GetUserReturn(s, reply, id) ==
    /\ req[s].pc = "awaitGetUser"
    /\ reply \in GetUserReplies(req[s].header[2])
    /\ id \in (IF req[s].op \in {"delete", "download"} THEN IdParams ELSE {0})
    /\ LET r == Logged(req[s], Call("getUser", <<>>,
                        IF VerifySucceeded(reply) THEN "ok" ELSE "error"))
       IN Step(s,
            IF AuthRejects(reply)
            THEN Send(r, ErrResp(401, "Invalid or expired token"))
            ELSE HandlerEntry([r EXCEPT !.user = reply.user,
                                        !.verified = VerifySucceeded(reply)], id))
    /\ UNCHANGED <<rows, objects, nextId, nextUuid, clock, arrived, hist>>

\* auth.ts:48-51: auth.getUser throws
GetUserThrow(s) ==
    /\ req[s].pc = "awaitGetUser"
    /\ Step(s,
            Send(Logged(req[s], Call("getUser", <<>>, "throw")), InternalErrorResp))
    /\ UNCHANGED <<rows, objects, nextId, nextUuid, clock, arrived, hist>>

\* mutant of TooLarge: multer is set up without its fileSize limit
TooLarge_NoLimit(file) == FALSE

\* files.ts:12-14: the part of the body multer refuses: a file beyond limits.fileSize
TooLarge(file) == file # <<>> /\ file[1].size > FileSizeLimit

\* files.ts:10-29 and index.ts:72-75: upload.single('file') has decoded the body;
\* an oversize file goes to the global error handler, anything else to the handler,
\* which runs up to the awaited storage upload; uuid is what uuidv4() returns
Decoded(s, file, uuid) ==
    /\ req[s].pc = "multer"
    /\ file \in Files
    /\ LET r == [req[s] EXCEPT !.body = file]
           tooLarge == TooLarge(file)
           fileName == FileName(r.user[1], uuid, FileExt(file[1].originalname))
       IN IF tooLarge
          THEN /\ Step(s,
                     Send(r, ErrDetailsResp(500, "Internal Server Error", TooLargeMsg)))
               /\ UNCHANGED nextUuid
          ELSE IF file = <<>> \/ r.user = <<>>
          THEN /\ Step(s,
                     Send(r, ErrResp(400, "No file provided or user not authenticated")))
               /\ UNCHANGED nextUuid
          ELSE /\ Step(s,
                     [r EXCEPT !.pc = "awaitPut", !.file = file, !.fileName = <<fileName>>])
               /\ nextUuid' = IF uuid = nextUuid THEN nextUuid + 1 ELSE nextUuid
    /\ UNCHANGED <<rows, objects, nextId, clock, arrived, hist>>

\* uuidv4() returns a value it has not returned before
MulterDone(s, file) == Decoded(s, file, nextUuid)

\* mutant of PutResult: the object is written with upsert: true
PutResult_Upsert(out, path) == out

\* files.ts:35-38: with upsert: false the store refuses to write a path that
\* holds an object
PutResult(out, path) == IF out = "ok" /\ path \in objects THEN "error" ELSE out

\* mutant of UploadPutReturn: a storage upload that returns an error is issued again
UploadPutReturn_Retries(s, out) ==
    /\ req[s].pc = "awaitPut"
    /\ out \in Outcomes
    /\ LET r == req[s]
           path == r.fileName[1]
           result == PutResult(out, path)
           rl == Logged(r, Call("put", <<path>>, result))
       IN /\ objects' = IF result = "ok" THEN objects \cup {path} ELSE objects
          /\ Step(s,
               CASE result = "ok" -> [rl EXCEPT !.pc = "awaitInsert", !.storagePath = <<path>>]
                 [] result = "error" -> [rl EXCEPT !.pc = "awaitPut"]
                 [] OTHER -> Send(rl, InternalErrorResp))
          /\ hist' = IF result = "ok" THEN [hist EXCEPT !.written = @ \cup {path}] ELSE hist
    /\ UNCHANGED <<rows, nextId, nextUuid, clock, arrived>>

\* files.ts:32-56: storage.upload(fileName, .., {upsert: false}) returns or throws
UploadPutReturn(s, out) ==
    /\ req[s].pc = "awaitPut"
    /\ out \in Outcomes
    /\ LET r == req[s]
           path == r.fileName[1]
           result == PutResult(out, path)
           msg == IF path \in objects THEN ExistsErrMsg ELSE StorageErrMsg
           rl == Logged(r, Call("put", <<path>>, result))
       IN /\ objects' = IF result = "ok" THEN objects \cup {path} ELSE objects
          /\ Step(s,
               CASE result = "ok" -> [rl EXCEPT !.pc = "awaitInsert", !.storagePath = <<path>>]
                 [] result = "error" ->
                      Send(rl, ErrDetailsResp(500, "Failed to upload file to storage", msg))
                 [] OTHER -> Send(rl, InternalErrorResp))
          /\ hist' = IF result = "ok" THEN [hist EXCEPT !.written = @ \cup {path}] ELSE hist
    /\ UNCHANGED <<rows, nextId, nextUuid, clock, arrived>>

\* files.ts:46-65: the insert returns or throws; on dbError the cleanup is issued
UploadInsertReturn(s, out) ==
    /\ req[s].pc = "awaitInsert"
    /\ out \in Outcomes
    /\ LET r == req[s]
           row == NewRow(nextId, clock, r.storagePath[1], r.file[1], r.user[1])
           rl == Logged(r, Call("insert", r.storagePath, out))
       IN /\ rows' = IF out = "ok" THEN rows \cup {row} ELSE rows
          /\ nextId' = IF out = "ok" THEN nextId + 1 ELSE nextId
          /\ clock' = IF out = "ok" THEN clock + 1 ELSE clock
          /\ Step(s,
               CASE out = "ok" ->
                      Send(rl, Resp(201, <<>>, <<>>, <<"File uploaded successfully">>,
                                    <<row>>, <<>>, <<>>))
                 [] out = "error" -> [rl EXCEPT !.pc = "awaitCleanup", !.dbError = <<DbErrMsg>>]
                 [] OTHER -> Send(rl, InternalErrorResp))
          /\ hist' = IF out = "ok" THEN hist
                     ELSE [hist EXCEPT !.failedInserts = @ \cup {r.storagePath[1]},
                                       !.window = @ \/ out = "throw"]
    /\ UNCHANGED <<objects, nextUuid, arrived>>

\* mutant of CleanupTarget: the cleanup removes the client's file name, not the path
CleanupTarget_OriginalName(r) ==
    [owner |-> "", uuid |-> 0, ext |-> FileExt(r.file[1].originalname)]

\* files.ts:61: the path the cleanup removes
CleanupTarget(r) == r.fileName[1]

\* mutant of UploadCleanupReturn: a cleanup that returns an error is reported
\* in place of the insert failure
UploadCleanupReturn_ReportsCleanup(s, out) ==
    /\ req[s].pc = "awaitCleanup"
    /\ out \in Outcomes
    /\ LET r == req[s]
           rl == Logged(r, Call("remove", <<CleanupTarget(r)>>, out))
       IN /\ objects' = IF out = "ok" THEN objects \ {CleanupTarget(r)} ELSE objects
          /\ Step(s,
               CASE out = "throw" -> Send(rl, InternalErrorResp)
                 [] out = "error" ->
                      Send(rl, ErrDetailsResp(500, "Failed to clean up file", StorageErrMsg))
                 [] OTHER ->
                      Send(rl, ErrDetailsResp(500, "Failed to save file metadata", r.dbError[1])))
          /\ hist' = IF out = "ok"
                     THEN [hist EXCEPT !.compensated = @ \cup {r.storagePath[1]}]
                     ELSE [hist EXCEPT !.window = TRUE]
    /\ UNCHANGED <<rows, nextId, nextUuid, clock, arrived>>

\* files.ts:61-62: storage.remove([fileName]) returns or throws; its result is not read
UploadCleanupReturn(s, out) ==
    /\ req[s].pc = "awaitCleanup"
    /\ out \in Outcomes
    /\ LET r == req[s]
           rl == Logged(r, Call("remove", <<CleanupTarget(r)>>, out))
       IN /\ objects' = IF out = "ok" THEN objects \ {CleanupTarget(r)} ELSE objects
          /\ Step(s,
               IF out = "throw" THEN Send(rl, InternalErrorResp)
               ELSE Send(rl, ErrDetailsResp(500, "Failed to save file metadata", r.dbError[1])))
          /\ hist' = IF out = "ok"
                     THEN [hist EXCEPT !.compensated = @ \cup {r.storagePath[1]}]
                     ELSE [hist EXCEPT !.window = TRUE]
    /\ UNCHANGED <<rows, nextId, nextUuid, clock, arrived>>

\* -------------------------------------------------------- the list route
\* files.ts:79-94
ListReturn(s, out) ==
    /\ req[s].pc = "awaitList"
    /\ out \in Outcomes
    /\ LET r == req[s]
           rl == Logged(r, Call("selectByOwner", <<>>, out))
           data == OrderDesc(SelectByOwner(rows, r.user[1]))
       IN Step(s,
               CASE out = "ok" -> Send(rl, Resp(200, <<>>, <<>>, <<>>, <<>>, <<data>>, <<>>))
                 [] out = "error" ->
                      Send(rl, ErrDetailsResp(500, "Failed to retrieve files", DbErrMsg))
                 [] OTHER -> Send(rl, InternalErrorResp))
    /\ UNCHANGED <<rows, objects, nextId, nextUuid, clock, arrived, hist>>

\* ------------------------------------------------------ the delete route
\* the reply of the awaited select-one: the table's answer, or a dependency error
FetchReply(out, id, owner) ==
    IF out = "ok" THEN Single(SelectOne(rows, id, owner)) ELSE [data |-> <<>>, error |-> TRUE]

\* files.ts:112 and files.ts:160: the guard on the reply of the select-one
FetchMisses(reply) == reply.error \/ reply.data = <<>>

\* what the table holds under an id when a caller looks it up: a row of the caller
\* ("own"), a row of somebody else ("foreign"), or no row ("absent")
Lookup(id, caller) ==
    IF \E row \in rows : row.id = id /\ row.owner_id = caller THEN "own"
    ELSE IF \E row \in rows : row.id = id THEN "foreign"
    ELSE "absent"

\* files.ts:105-120: the select-one returns or throws; a found row starts the removal
DeleteFetchReturn(s, out) ==
    /\ req[s].pc = "awaitDelFetch"
    /\ out \in Outcomes
    /\ LET r == req[s]
           reply == FetchReply(out, r.id, r.user[1])
           rl == Logged([r EXCEPT !.lookup = Lookup(r.id, r.user[1])],
                        Call("selectOne", <<>>,
                             IF out = "throw" THEN "throw"
                             ELSE IF FetchMisses(reply) THEN "error" ELSE "ok"))
       IN Step(s,
               IF out = "throw" THEN Send(rl, InternalErrorResp)
               ELSE IF FetchMisses(reply) THEN Send(rl, NotFoundResp)
               ELSE [rl EXCEPT !.pc = "awaitDelRemove", !.fileRecord = reply.data])
    /\ UNCHANGED <<rows, objects, nextId, nextUuid, clock, arrived, hist>>

\* mutant of DeleteRemoveReturn: a removal that returns an error ends the request
DeleteRemoveReturn_Reports(s, out) ==
    /\ req[s].pc = "awaitDelRemove"
    /\ out \in Outcomes
    /\ LET r == req[s]
           path == r.fileRecord[1].storage_path
           rl == Logged(r, Call("remove", <<path>>, out))
       IN /\ objects' = IF out = "ok" THEN objects \ {path} ELSE objects
          /\ Step(s,
               CASE out = "throw" -> Send(rl, InternalErrorResp)
                 [] out = "error" -> Send(rl, ErrResp(500, "Failed to delete file from storage"))
                 [] OTHER -> [rl EXCEPT !.pc = "awaitRowDelete"])
          /\ hist' = [hist EXCEPT !.window = @ \/ out # "ok"]
    /\ UNCHANGED <<rows, nextId, nextUuid, clock, arrived>>

\* mutant of DeleteRemoveReturn: a removal that returns an error is reported, but
\* the handler does not return and goes on to the row delete
DeleteRemoveReturn_NoReturn(s, out) ==
    /\ req[s].pc = "awaitDelRemove"
    /\ out \in Outcomes
    /\ LET r == req[s]
           path == r.fileRecord[1].storage_path
           rl == Logged(r, Call("remove", <<path>>, out))
           failure == ErrResp(500, "Failed to delete file from storage")
       IN /\ objects' = IF out = "ok" THEN objects \ {path} ELSE objects
          /\ Step(s,
               CASE out = "throw" -> Send(rl, InternalErrorResp)
                 [] out = "error" ->
                      [rl EXCEPT !.pc = "awaitRowDelete", !.resp = Append(@, failure)]
                 [] OTHER -> [rl EXCEPT !.pc = "awaitRowDelete"])
          /\ hist' = [hist EXCEPT !.window = @ \/ out # "ok"]
    /\ UNCHANGED <<rows, nextId, nextUuid, clock, arrived>>

\* files.ts:117-133: storage.remove([storage_path]) returns or throws; an error is
\* only logged and the row delete is issued
DeleteRemoveReturn(s, out) ==
    /\ req[s].pc = "awaitDelRemove"
    /\ out \in Outcomes
    /\ LET r == req[s]
           path == r.fileRecord[1].storage_path
           rl == Logged(r, Call("remove", <<path>>, out))
       IN /\ objects' = IF out = "ok" THEN objects \ {path} ELSE objects
          /\ Step(s,
               IF out = "throw" THEN Send(rl, InternalErrorResp)
               ELSE [rl EXCEPT !.pc = "awaitRowDelete"])
          /\ hist' = [hist EXCEPT !.window = @ \/ out # "ok"]
    /\ UNCHANGED <<rows, nextId, nextUuid, clock, arrived>>

\* files.ts:129-142: the row delete returns or throws
DeleteRowReturn(s, out) ==
    /\ req[s].pc = "awaitRowDelete"
    /\ out \in Outcomes
    /\ LET r == req[s]
           rl == Logged(r, Call("deleteOne", <<>>, out))
       IN /\ rows' = IF out = "ok" THEN DeleteRows(rows, r.id, r.user[1]) ELSE rows
          /\ Step(s,
               CASE out = "ok" ->
                      Send(rl, Resp(200, <<>>, <<>>, <<"File deleted successfully">>,
                                    <<>>, <<>>, <<>>))
                 [] out = "error" -> Send(rl, ErrResp(500, "Failed to delete file record"))
                 [] OTHER -> Send(rl, InternalErrorResp))
          /\ hist' = [hist EXCEPT !.window = @ \/ out = "throw",
                                  !.deleted = IF out = "ok" THEN @ \cup {r.id} ELSE @]
    /\ UNCHANGED <<objects, nextId, nextUuid, clock, arrived>>

\* ---------------------------------------------------- the download route
\* files.ts:153-168: the select-one returns or throws; a found row starts the signing
DownloadFetchReturn(s, out) ==
    /\ req[s].pc = "awaitDlFetch"
    /\ out \in Outcomes
    /\ LET r == req[s]
           reply == FetchReply(out, r.id, r.user[1])
           rl == Logged([r EXCEPT !.lookup = Lookup(r.id, r.user[1])],
                        Call("selectOne", <<>>,
                             IF out = "throw" THEN "throw"
                             ELSE IF FetchMisses(reply) THEN "error" ELSE "ok"))
       IN Step(s,
               IF out = "throw" THEN Send(rl, InternalErrorResp)
               ELSE IF FetchMisses(reply) THEN Send(rl, NotFoundResp)
               ELSE [rl EXCEPT !.pc = "awaitSign", !.fileRecord = reply.data])
    /\ UNCHANGED <<rows, objects, nextId, nextUuid, clock, arrived, hist>>

\* the signed URL the store hands out for a path
SignedUrl(path, expiresIn) == [path |-> path, expiresIn |-> expiresIn]

\* a download that consumes the object it signs
DownloadSignReturn_Consumes(s, out) ==
    /\ req[s].pc = "awaitSign"
    /\ out \in Outcomes
    /\ LET r == req[s]
           path == r.fileRecord[1].storage_path
           result == IF out = "ok" /\ path \notin objects THEN "error" ELSE out
           rl == Logged(r, Call("createSignedUrl", <<path>>, result))
       IN /\ Step(s,
                  CASE result = "ok" ->
                         Send(rl, Resp(200, <<>>, <<>>, <<>>, <<>>, <<>>,
                                       <<SignedUrl(path, SignedUrlExpiry)>>))
                    [] result = "error" -> Send(rl, ErrResp(500, "Failed to generate download link"))
                    [] OTHER -> Send(rl, InternalErrorResp))
          /\ objects' = IF result = "ok" THEN objects \ {path} ELSE objects
    /\ UNCHANGED <<rows, nextId, nextUuid, clock, arrived, hist>>

\* files.ts:165-181: createSignedUrl(storage_path, 60 * 60) returns or throws;
\* the store signs only a path that holds an object
DownloadSignReturn(s, out) ==
    /\ req[s].pc = "awaitSign"
    /\ out \in Outcomes
    /\ LET r == req[s]
           path == r.fileRecord[1].storage_path
           result == IF out = "ok" /\ path \notin objects THEN "error" ELSE out
           rl == Logged(r, Call("createSignedUrl", <<path>>, result))
       IN Step(s,
               CASE result = "ok" ->
                      Send(rl, Resp(200, <<>>, <<>>, <<>>, <<>>, <<>>,
                                    <<SignedUrl(path, SignedUrlExpiry)>>))
                 [] result = "error" -> Send(rl, ErrResp(500, "Failed to generate download link"))
                 [] OTHER -> Send(rl, InternalErrorResp))
    /\ UNCHANGED <<rows, objects, nextId, nextUuid, clock, arrived, hist>>

\* ------------------------------------------------------------------ Next
Next ==
    \E s \in Slots :
        \/ \E op \in Ops, header \in Headers : Arrive(s, op, header)
        \/ \E reply \in UNION {GetUserReplies(t) : t \in Tokens}, id \in IdParams \cup {0} :
              GetUserReturn(s, reply, id)
        \/ GetUserThrow(s)
        \/ \E file \in Files : MulterDone(s, file)
        \/ \E out \in Outcomes : UploadPutReturn(s, out)
        \/ \E out \in Outcomes : UploadInsertReturn(s, out)
        \/ \E out \in Outcomes : UploadCleanupReturn(s, out)
        \/ \E out \in Outcomes : ListReturn(s, out)
        \/ \E out \in Outcomes : DeleteFetchReturn(s, out)
        \/ \E out \in Outcomes : DeleteRemoveReturn(s, out)
        \/ \E out \in Outcomes : DeleteRowReturn(s, out)
        \/ \E out \in Outcomes : DownloadFetchReturn(s, out)
        \/ \E out \in Outcomes : DownloadSignReturn(s, out)

Spec == Init /\ [][Next]_vars

\* ------------------------------------------------- a dependency that stalls
\* the awaits of the calls to the identity service, the object store and the table
Awaits ==
    {"awaitGetUser", "awaitPut", "awaitInsert", "awaitCleanup", "awaitList",
     "awaitDelFetch", "awaitDelRemove", "awaitRowDelete", "awaitDlFetch", "awaitSign"}

\* supabase.ts:18-44: the clients are created with the auth options only: no
\* timeout and no abort signal is attached to their calls, so a call the
\* external service never answers leaves its await pending for good
Stall(s) ==
    /\ req[s].pc \in Awaits
    /\ req' = [req EXCEPT ![s].pc = "stalled"]
    /\ answered' = <<>>
    /\ UNCHANGED <<rows, objects, nextId, nextUuid, clock, arrived, hist>>

NextStall == Next \/ \E s \in Slots : Stall(s)

\* the runtime runs the continuation of every call that returns, and the
\* multipart decoding always ends; nothing makes an external call return
LiveSpec == Init /\ [][NextStall]_vars /\ WF_vars(Next)

\* ------------------------------------------------- the lifecycle scenario
\* Every external call succeeds.  User uA issues its requests one after the
\* other: an upload, a listing, a delete of the uploaded file, then listings.
\* User uB issues any requests meanwhile, one at a time.
HeaderOf(u) == <<"Bearer", CHOOSE t \in Tokens : TokenUser[t] = u>>

\* the k-th request of uA
LifeOp(k) ==
    CASE k = 1 -> "upload"
      [] k = 2 -> "list"
      [] k = 3 -> "delete"
      [] OTHER -> "list"

\* a request of user u is being served
Serving(u) == \E s \in Slots : ~Free(s) /\ req[s].header = HeaderOf(u)

\* the uploads that have taken, or may still take, a uuid and a row id
UploadsStarted ==
    (nextUuid - 1)
      + Cardinality({s \in Slots : req[s].op = "upload" /\ req[s].fileName = <<>>})

\* the next request of uA arrives once the previous one has been answered
LifeArrive(s) ==
    /\ arrived < MaxLife
    /\ ~Serving("uA")
    /\ arrived' = arrived + 1
    /\ Receive(s, LifeOp(arrived + 1), HeaderOf("uA"))

\* a request of uB arrives; the row of uA gets an id that req.params.id covers
BgArrive(s, op) ==
    /\ arrived >= 1
    /\ ~Serving("uB")
    /\ op = "upload" =>
          /\ UploadsStarted < MaxUploads
          /\ arrived = 1 => UploadsStarted < Cardinality(IdParams)
    /\ UNCHANGED arrived
    /\ Receive(s, op, HeaderOf("uB"))

\* the identity service verifies the token; uA deletes the file it has uploaded
LifeGetUser(s) ==
    /\ req[s].pc = "awaitGetUser"
    /\ \E id \in IdParams \cup {0} :
          /\ (req[s].header = HeaderOf("uA") /\ req[s].op = "delete") =>
                \E row \in rows : row.owner_id = "uA" /\ row.id = id
          /\ GetUserReturn(s, [user |-> <<TokenUser[req[s].header[2]]>>, error |-> FALSE], id)

\* the multipart body is decoded; uA sends a file within the limit
LifeMulter(s) ==
    \E file \in Files :
        /\ req[s].header = HeaderOf("uA") => file # <<>> /\ ~TooLarge(file)
        /\ MulterDone(s, file)

LifeNext ==
    \E s \in Slots :
        \/ LifeArrive(s)
        \/ \E op \in Ops : BgArrive(s, op)
        \/ LifeGetUser(s)
        \/ LifeMulter(s)
        \/ UploadPutReturn(s, "ok")
        \/ UploadInsertReturn(s, "ok")
        \/ ListReturn(s, "ok")
        \/ DeleteFetchReturn(s, "ok")
        \/ DeleteRemoveReturn(s, "ok")
        \/ DeleteRowReturn(s, "ok")
        \/ DownloadFetchReturn(s, "ok")
        \/ DownloadSignReturn(s, "ok")

LifeSpec == Init /\ [][LifeNext]_vars

\* ---------------------------------------------------- colliding uuids
\* uuidv4() is random: nothing in the code keeps it from returning a value it
\* has returned before
CollidingMulter(s, file, uuid) ==
    /\ uuid \in 1..nextUuid
    /\ Decoded(s, file, uuid)

CollNext ==
    \E s \in Slots :
        \/ \E op \in Ops, header \in Headers : Arrive(s, op, header)
        \/ \E reply \in UNION {GetUserReplies(t) : t \in Tokens}, id \in IdParams \cup {0} :
              GetUserReturn(s, reply, id)
        \/ GetUserThrow(s)
        \/ \E file \in Files, uuid \in 1..MaxReq : CollidingMulter(s, file, uuid)
        \/ \E out \in Outcomes : UploadPutReturn(s, out)
        \/ \E out \in Outcomes : UploadInsertReturn(s, out)
        \/ \E out \in Outcomes : UploadCleanupReturn(s, out)
        \/ \E out \in Outcomes : ListReturn(s, out)
        \/ \E out \in Outcomes : DeleteFetchReturn(s, out)
        \/ \E out \in Outcomes : DeleteRemoveReturn(s, out)
        \/ \E out \in Outcomes : DeleteRowReturn(s, out)
        \/ \E out \in Outcomes : DownloadFetchReturn(s, out)
        \/ \E out \in Outcomes : DownloadSignReturn(s, out)

CollSpec == Init /\ [][CollNext]_vars

\* ------------------------------------------- requests on an uploaded file
\* User uA uploads a file, every call succeeding; then requests of both users
\* to list, delete and download arrive and run concurrently, with every outcome
\* of their calls to the store.
Seeded == nextId > 1

\* the upload of uA arrives
SeedArrive(s) ==
    /\ ~Seeded
    /\ \A t \in Slots : Free(t)
    /\ UNCHANGED arrived
    /\ Receive(s, "upload", HeaderOf("uA"))

\* a request to list, delete or download arrives
DelArrive(s, op, user) ==
    /\ Seeded
    /\ op # "upload"
    /\ arrived < MaxDel
    /\ arrived' = arrived + 1
    /\ Receive(s, op, HeaderOf(user))

\* the identity service verifies the token
DelGetUser(s) ==
    /\ req[s].pc = "awaitGetUser"
    /\ \E id \in IdParams \cup {0} :
          GetUserReturn(s, [user |-> <<TokenUser[req[s].header[2]]>>, error |-> FALSE], id)

DelNext ==
    \E s \in Slots :
        \/ SeedArrive(s)
        \/ \E op \in Ops, user \in Users : DelArrive(s, op, user)
        \/ DelGetUser(s)
        \/ LifeMulter(s)
        \/ UploadPutReturn(s, "ok")
        \/ UploadInsertReturn(s, "ok")
        \/ \E out \in Outcomes : ListReturn(s, out)
        \/ \E out \in Outcomes : DeleteFetchReturn(s, out)
        \/ \E out \in Outcomes : DeleteRemoveReturn(s, out)
        \/ \E out \in Outcomes : DeleteRowReturn(s, out)
        \/ \E out \in Outcomes : DownloadFetchReturn(s, out)
        \/ \E out \in Outcomes : DownloadSignReturn(s, out)

DelSpec == Init /\ [][DelNext]_vars


\* ---------------------------------------------------------------- views
\* the requests of the state: those being served and the one just answered
InFlight == {req[s] : s \in {t \in Slots : req[t].pc # "idle"}}
Answered == {answered[i] : i \in 1..Len(answered)}
Requests == InFlight \cup Answered

\* the request that took the step, as the step leaves it
Actors ==
    IF answered' # <<>> THEN {answered'[1]}
    ELSE {req'[s] : s \in {t \in Slots : req'[t] # req[t]}}

\* the awaits of the calls to the object store and to the metadata table
StoreAwaits ==
    {"awaitPut", "awaitInsert", "awaitCleanup", "awaitList", "awaitDelFetch",
     "awaitDelRemove", "awaitRowDelete", "awaitDlFetch", "awaitSign"}

\* a call to the object store or to the metadata table has been issued for r
StoreCallIssued(r) ==
    \/ r.pc \in StoreAwaits
    \/ \E i \in 1..Len(r.calls) : r.calls[i].call # "getUser"

\* some call of r has thrown
Threw(r) == \E i \in 1..Len(r.calls) : r.calls[i].result = "throw"

\* the i-th call of r is the call of that name and has had that result
CallIs(r, i, name, result) ==
    /\ Len(r.calls) >= i
    /\ r.calls[i].call = name
    /\ r.calls[i].result = result

\* an object belongs to a user when it lies under the user's folder or a row of
\* the user references it
BelongsTo(path, user) ==
    \/ path.owner = user
    \/ \E row \in rows : row.owner_id = user /\ row.storage_path = path

\* the rows a response carries
RowsOf(response) ==
    {response.file[i] : i \in 1..Len(response.file)}
      \cup UNION {{response.list[i][j] : j \in 1..Len(response.list[i])} :
                    i \in 1..Len(response.list)}

\* ---------------------------------------------------------------- claims
\* C1: authentication gate.  On every route, no call to the object store or to
\* the metadata table is issued for a request unless auth.getUser has returned a
\* user and no error for that request, and a step of a request whose verification
\* has not succeeded leaves the rows and the objects as they were.
C1_AuthGate ==
    [][/\ \A r \in Actors :
            ~r.verified => /\ ~StoreCallIssued(r)
                           /\ rows' = rows
                           /\ objects' = objects
       /\ \A s \in Slots : StoreCallIssued(req'[s]) => req'[s].verified]_vars

\* C1 witness: a request the verifier has turned down has been answered with 401
\* after its getUser call, while the store holds a row and an object.
C1_Witness ==
    /\ answered # <<>>
    /\ ~answered[1].verified
    /\ CallIs(answered[1], 1, "getUser", "error")
    /\ answered[1].resp = <<ErrResp(401, "Invalid or expired token")>>
    /\ rows # {}
    /\ objects # {}

\* C2: indistinguishable not-found.  A Delete or Download of an id whose row
\* belongs to another user is answered exactly as one of an id that has no row:
\* 404 'File not found' whenever the lookup returns (the generic 500 of the catch
\* in both cases when the lookup throws), and in both cases the request ends
\* with the lookup: no removal, no row delete and no signed URL is requested.
C2_IndistinguishableNotFound ==
    \A r \in Requests :
        (r.op \in {"delete", "download"} /\ r.lookup \in {"foreign", "absent"}) =>
            /\ r.pc = "done"
            /\ Len(r.calls) = 2
            /\ r.calls[2].call = "selectOne"
            /\ r.resp = <<IF r.calls[2].result = "throw" THEN InternalErrorResp
                          ELSE NotFoundResp>>

\* C2 witness: a Download of an id whose row belongs to another user has been
\* answered with 404.
C2_Witness ==
    /\ answered # <<>>
    /\ answered[1].op = "download"
    /\ answered[1].lookup = "foreign"
    /\ answered[1].resp = <<NotFoundResp>>

\* C3: exclusive ownership.  Under every interleaving, a step of a request
\* authenticated as a user removes no row and no object of another user, and
\* the response of the request carries no row of another user and no signed URL
\* for a path of another user.
C3_ExclusiveOwnership ==
    [][\A r \in Actors :
          r.user # <<>> =>
            /\ \A row \in rows \ rows' : row.owner_id = r.user[1]
            /\ \A path \in objects \ objects' :
                  \A other \in Users \ {r.user[1]} : ~BelongsTo(path, other)
            /\ \A i \in 1..Len(r.resp) :
                  /\ \A row \in RowsOf(r.resp[i]) : row.owner_id = r.user[1]
                  /\ \A j \in 1..Len(r.resp[i].downloadUrl) :
                        \A other \in Users \ {r.user[1]} :
                            ~BelongsTo(r.resp[i].downloadUrl[j].path, other)]_vars

\* C3 witness: a Delete of an id whose row belongs to another user has been
\* answered, and the row and its object are still in place.
C3_Witness ==
    /\ answered # <<>>
    /\ answered[1].op = "delete"
    /\ answered[1].lookup = "foreign"
    /\ \E row \in rows : /\ row.id = answered[1].id
                         /\ row.owner_id # answered[1].user[1]
                         /\ row.storage_path \in objects

\* C4: a listing returns no row of another owner: every row of the result of
\* List(u) has owner_id = u.
C4_ListOnlyOwnRows ==
    \A r \in Requests :
        r.op = "list" =>
            \A i \in 1..Len(r.resp) : \A row \in RowsOf(r.resp[i]) : row.owner_id = r.user[1]

\* C4 witness: a listing has been answered with its result while the table
\* holds a row of another owner.
C4_Witness ==
    /\ answered # <<>>
    /\ answered[1].op = "list"
    /\ answered[1].resp # <<>>
    /\ answered[1].resp[1].list # <<>>
    /\ \E row \in rows : row.owner_id # answered[1].user[1]

\* the response that reports the failure of the metadata insert
InsertFailureResp == ErrDetailsResp(500, "Failed to save file metadata", DbErrMsg)

\* an Upload whose object write has succeeded and whose insert has returned an error
InsertFailed(r) ==
    /\ r.op = "upload"
    /\ CallIs(r, 2, "put", "ok")
    /\ CallIs(r, 3, "insert", "error")

\* C5 as claimed: after a successful object write and an insert that returns an
\* error, the removal of the written object is issued before the response, and
\* the response is the insert failure whatever the outcome of the removal.
C5_AsClaimed ==
    \A r \in Requests :
        InsertFailed(r) =>
            IF r.pc = "done"
            THEN /\ Len(r.calls) = 4
                 /\ r.calls[4].call = "remove"
                 /\ r.calls[4].path = r.calls[2].path
                 /\ r.resp = <<InsertFailureResp>>
            ELSE r.pc = "awaitCleanup" /\ r.resp = <<>>

\* C5, amended: after a successful object write and an insert that returns an
\* error, the removal of the written object is issued before the response; the
\* response is the insert failure (500 'Failed to save file metadata' with the
\* insert error's message) whenever the removal returns, with or without an
\* error, and the generic 500 of the handler's catch when the removal throws.
C5_UploadCompensation ==
    \A r \in Requests :
        InsertFailed(r) =>
            IF r.pc = "done"
            THEN /\ Len(r.calls) = 4
                 /\ r.calls[4].call = "remove"
                 /\ r.calls[4].path = r.calls[2].path
                 /\ r.resp = <<IF r.calls[4].result = "throw" THEN InternalErrorResp
                               ELSE InsertFailureResp>>
            ELSE r.pc = "awaitCleanup" /\ r.resp = <<>>

\* C5 witness: the removal itself has returned an error and the response is the
\* insert failure; the written object is still in the store.
C5_Witness ==
    /\ answered # <<>>
    /\ InsertFailed(answered[1])
    /\ CallIs(answered[1], 4, "remove", "error")
    /\ answered[1].resp = <<InsertFailureResp>>
    /\ answered[1].calls[2].path[1] \in objects

\* C6: compensation invariant.  Once the insert of an Upload has failed after a
\* successful object write, no row references the written path, so no later
\* listing shows one; and once the compensating removal has succeeded, no object
\* is in the store at that path.
C6_CompensationInvariant ==
    /\ \A row \in rows : row.storage_path \notin hist.failedInserts
    /\ \A r \in Requests : \A i \in 1..Len(r.resp) : \A row \in RowsOf(r.resp[i]) :
          row.storage_path \notin hist.failedInserts
    /\ \A path \in hist.compensated : path \in hist.failedInserts /\ path \notin objects

\* C6 witness: after an Upload of a user whose insert failed and whose cleanup
\* succeeded, a listing of that user has been answered with its result.
C6_Witness ==
    /\ answered # <<>>
    /\ answered[1].op = "list"
    /\ answered[1].resp[1].list # <<>>
    /\ \E path \in hist.compensated : path.owner = answered[1].user[1]

\* an Upload or a Delete is being served
WriterInFlight == \E r \in InFlight : r.op \in {"upload", "delete"}

\* every row references an object of the store and no other row references it,
\* and every object of the store is referenced by a row
RowsMatchObjects ==
    /\ \A row \in rows :
          /\ row.storage_path \in objects
          /\ \A other \in rows : other.storage_path = row.storage_path => other = row
    /\ \A path \in objects : \E row \in rows : row.storage_path = path

\* C7 as claimed: whenever no Upload and no Delete is in flight, and outside the
\* failure windows (a compensating removal or an object removal that has failed;
\* every call that has thrown after an object write is counted as one too), the
\* rows and the objects correspond one to one.
C7_RowObjectConsistency == (~WriterInFlight /\ ~hist.window) => RowsMatchObjects

\* C8 as claimed: once a Delete has completed, whichever of its calls returned
\* an error, the row it was asked to delete is not left in the table with its
\* object removed from the store.
C8_NoDanglingReference ==
    \A r \in Answered :
        (r.op = "delete" /\ ~Threw(r)) =>
            ~\E row \in rows : /\ row.id = r.id
                               /\ row.owner_id = r.user[1]
                               /\ row.storage_path \notin objects

\* a Delete that has found the caller's row
OwnRowFound(r) == r.op = "delete" /\ CallIs(r, 2, "selectOne", "ok")

DeletedResp == Resp(200, <<>>, <<>>, <<"File deleted successfully">>, <<>>, <<>>, <<>>)
RowDeleteFailureResp == ErrResp(500, "Failed to delete file record")

\* C9 as claimed: in a Delete that has found the caller's row, a failed object
\* removal is swallowed (the row delete is still issued and, when it succeeds,
\* the response is the success), and nothing but a failed row delete is
\* reported as an error.
C9_AsClaimed ==
    \A r \in Answered :
        OwnRowFound(r) =>
            /\ r.calls[3].result # "ok" =>
                  /\ Len(r.calls) = 4
                  /\ r.calls[4].call = "deleteOne"
                  /\ r.calls[4].result = "ok" => r.resp = <<DeletedResp>>
            /\ r.resp # <<DeletedResp>> =>
                  /\ Len(r.calls) = 4
                  /\ r.calls[4].result # "ok"
                  /\ r.resp[1].status = 500

\* C9, amended: in a Delete that has found the caller's row, an error returned
\* by the object removal is swallowed (the row delete is still issued and, when
\* it succeeds, the response is the success); of the errors the calls return,
\* only that of the row delete is reported (500 'Failed to delete file record');
\* a call that throws, the object removal included, ends the request with the
\* generic 500 of the handler's catch.
C9_DeleteFailureReporting ==
    \A r \in Answered :
        OwnRowFound(r) =>
            /\ Len(r.calls) >= 3
            /\ r.calls[3].call = "remove"
            /\ r.calls[3].result # "throw" =>
                  /\ Len(r.calls) = 4
                  /\ r.calls[4].call = "deleteOne"
                  /\ r.calls[4].result = "ok" => r.resp = <<DeletedResp>>
                  /\ r.calls[4].result = "error" => r.resp = <<RowDeleteFailureResp>>
            /\ Threw(r) => r.resp = <<InternalErrorResp>>

\* C9 witness: the object removal has returned an error, the row delete has
\* succeeded and the response is the success; the object is still in the store.
C9_Witness ==
    /\ answered # <<>>
    /\ OwnRowFound(answered[1])
    /\ CallIs(answered[1], 3, "remove", "error")
    /\ CallIs(answered[1], 4, "deleteOne", "ok")
    /\ answered[1].resp = <<DeletedResp>>
    /\ answered[1].calls[3].path[1] \in objects

\* an Upload whose object write and insert have both succeeded
UploadSucceeded(r) ==
    /\ r.op = "upload"
    /\ CallIs(r, 2, "put", "ok")
    /\ CallIs(r, 3, "insert", "ok")

\* C10: a successful Upload of an authenticated caller is answered with 201 and
\* the full inserted row: the row is in the table, it carries the file's name,
\* type and size, its owner_id is the caller's id, and its storage_path starts
\* with the caller's id and is the path at which the object was written.
C10_UploadResult ==
    \A r \in Answered :
        UploadSucceeded(r) =>
            /\ r.verified
            /\ Len(r.resp) = 1
            /\ r.resp[1].status = 201
            /\ Len(r.resp[1].file) = 1
            /\ LET row == r.resp[1].file[1]
               IN /\ row \in rows
                  /\ row.owner_id = r.user[1]
                  /\ StartsWithOwner(row.storage_path, r.user[1])
                  /\ row.storage_path = r.calls[2].path[1]
                  /\ row.storage_path \in objects
                  /\ row.original_filename = r.file[1].originalname
                  /\ row.file_type = r.file[1].mimetype
                  /\ row.file_size = r.file[1].size

\* C10 witness: an Upload has been answered with 201 and its row.
C10_Witness ==
    /\ answered # <<>>
    /\ UploadSucceeded(answered[1])
    /\ answered[1].resp[1].status = 201
    /\ answered[1].resp[1].file # <<>>

\* an Upload whose multipart body carries a file beyond the 10 MiB limit
Oversize(r) == r.op = "upload" /\ r.body # <<>> /\ r.body[1].size > FileSizeLimit

\* C11: an Upload whose file exceeds the 10 MiB limit is turned down when the
\* multipart body is decoded: the handler never receives the file, the request
\* issues no object write and no metadata insert (no call to the store at all),
\* and its step creates no object and no row.
C11_OversizeRejectedBeforeWrite ==
    [][\A r \in Actors :
          Oversize(r) =>
            /\ r.pc = "done"
            /\ r.file = <<>>
            /\ ~StoreCallIssued(r)
            /\ \A i \in 1..Len(r.calls) : r.calls[i].call \notin {"put", "insert"}
            /\ rows' = rows
            /\ objects' = objects]_vars

\* C11 witness: an authenticated Upload with a file beyond the limit has been
\* answered with an error and without any call to the store.
C11_Witness ==
    /\ answered # <<>>
    /\ Oversize(answered[1])
    /\ answered[1].verified
    /\ Len(answered[1].calls) = 1
    /\ answered[1].resp # <<>>
    /\ answered[1].resp[1].error # <<>>

\* C12 as claimed: an authenticated Upload with no file part, and an
\* authenticated Upload whose file exceeds the 10 MiB limit, are both answered
\* with status 400 and a body that has an error field.
C12_ValidationFailures400 ==
    \A r \in Answered :
        (r.op = "upload" /\ r.verified /\ (r.body = <<>> \/ Oversize(r))) =>
            /\ Len(r.resp) = 1
            /\ r.resp[1].status = 400
            /\ r.resp[1].error # <<>>

\* the calls of r to the object store and to the metadata table that have
\* returned a dependency error: a call that returned an error, where for the
\* select-one of Delete and Download the row was there for the caller to find
DependencyErrors(r) ==
    {i \in 1..Len(r.calls) :
        /\ r.calls[i].call # "getUser"
        /\ r.calls[i].result = "error"
        /\ r.calls[i].call = "selectOne" => r.lookup = "own"}

\* a response that reports a failure
IsFailure(response) == response.status >= 400

\* status 500 with an error field and a field carrying the underlying message
Is500WithMessage(response) ==
    response.status = 500 /\ response.error # <<>> /\ response.details # <<>>

\* C13 as claimed: in every operation, when a call to the object store or to
\* the metadata table has failed with a dependency error, other than the object
\* removal that Delete swallows, the response has status 500, an error field
\* and a field carrying the underlying message; and every failure response has
\* an error field.  (A request one of whose calls has thrown is an internal
\* fault, not a dependency failure, and is left to the generic 500.)
C13_AsClaimed ==
    \A r \in Answered :
        /\ (/\ ~Threw(r)
            /\ \E i \in DependencyErrors(r) :
                  ~(r.op = "delete" /\ r.calls[i].call = "remove")) =>
              /\ Len(r.resp) = 1
              /\ Is500WithMessage(r.resp[1])
        /\ \A k \in 1..Len(r.resp) : IsFailure(r.resp[k]) => r.resp[k].error # <<>>

\* C13, amended: when no call of the request has thrown, a dependency error
\* returned by the object write, by the metadata insert or by the listing select
\* is answered with status 500, an error field and a details field carrying the
\* message of that error; one returned by the row delete of Delete or by the
\* signed-URL request of Download is answered with status 500 and an error
\* field only; one returned by the select-one of Delete or Download is answered
\* with 404 'File not found'.  A request one of whose calls has thrown is
\* answered with the generic 500.  Every failure response has an error field.
C13_DependencyFailureReporting ==
    \A r \in Answered :
        /\ ~Threw(r) =>
              /\ Len(r.resp) = 1
              /\ \A i \in DependencyErrors(r) :
                    LET c == r.calls[i].call
                    IN /\ c = "put" =>
                            /\ Is500WithMessage(r.resp[1])
                            /\ r.resp[1].details \in {<<StorageErrMsg>>, <<ExistsErrMsg>>}
                       /\ c \in {"insert", "selectByOwner"} =>
                            /\ Is500WithMessage(r.resp[1])
                            /\ r.resp[1].details = <<DbErrMsg>>
                       /\ c \in {"deleteOne", "createSignedUrl"} =>
                            /\ r.resp[1].status = 500
                            /\ r.resp[1].error # <<>>
                            /\ r.resp[1].details = <<>>
                       /\ c = "selectOne" => r.resp[1] = NotFoundResp
        /\ Threw(r) => r.resp = <<InternalErrorResp>>
        /\ \A k \in 1..Len(r.resp) : IsFailure(r.resp[k]) => r.resp[k].error # <<>>

\* C13 witness: the row delete of a Delete has returned an error and the
\* response is a 500 with an error field and no details field.
C13_Witness ==
    /\ answered # <<>>
    /\ answered[1].op = "delete"
    /\ CallIs(answered[1], 4, "deleteOne", "error")
    /\ answered[1].resp[1].status = 500
    /\ answered[1].resp[1].details = <<>>

\* the response requireAuth sends for a missing credential
MissingCredentialResps ==
    {ErrResp(401, "Missing Authorization header"), ErrResp(401, "Missing Bearer token")}

\* C14: identity verifier outcomes.  An absent Authorization header is answered
\* with 401 'Missing Authorization header'; a header with no token after the
\* scheme with 401 'Missing Bearer token'; a token for which the identity
\* service returns an error or no user with 401 'Invalid or expired token'; an
\* exception thrown by the verification with the generic 500, not a 401.  In
\* these four cases the route handler is not invoked (and the verification is
\* not even called in the first two).  On success the request carries the id
\* of the user the identity service returned and the handler has been invoked
\* exactly once.
C14_VerifierOutcomes ==
    \A r \in Requests :
        /\ r.header = <<>> =>
              /\ r.resp = <<ErrResp(401, "Missing Authorization header")>>
              /\ r.calls = <<>> /\ r.entered = 0
        /\ (r.header # <<>> /\ (Len(r.header) = 1 \/ r.header[2] = "")) =>
              /\ r.resp = <<ErrResp(401, "Missing Bearer token")>>
              /\ r.calls = <<>> /\ r.entered = 0
        /\ CallIs(r, 1, "getUser", "error") =>
              /\ r.resp = <<ErrResp(401, "Invalid or expired token")>>
              /\ Len(r.calls) = 1 /\ r.entered = 0 /\ r.user = <<>>
        /\ CallIs(r, 1, "getUser", "throw") =>
              /\ r.resp = <<InternalErrorResp>>
              /\ Len(r.calls) = 1 /\ r.entered = 0 /\ r.user = <<>>
        /\ CallIs(r, 1, "getUser", "ok") =>
              /\ r.entered = 1
              /\ r.verified
              /\ r.user = <<TokenUser[r.header[2]]>>
              /\ \A k \in 1..Len(r.resp) : r.resp[k] \notin MissingCredentialResps
        /\ r.entered > 0 => CallIs(r, 1, "getUser", "ok")

\* C14 witness: the verification of a request has thrown and the request has
\* been answered with the generic 500 without its handler being invoked, while
\* another request with a verified user is in its handler.
C14_Witness ==
    /\ answered # <<>>
    /\ CallIs(answered[1], 1, "getUser", "throw")
    /\ answered[1].resp = <<InternalErrorResp>>
    /\ answered[1].entered = 0
    /\ \E r \in InFlight : r.entered = 1 /\ r.verified

\* C15 as claimed: every request eventually receives a response, even when an
\* external call never returns (each outbound call being cut off by a timeout
\* that surfaces a failure).
C15_BoundedResponse ==
    \A s \in Slots : (req[s].pc # "idle") ~> (req[s].pc = "idle")

\* the external call a request is waiting for, if it waits for one
PendingCall(r) ==
    CASE r.pc = "awaitGetUser" -> <<"getUser">>
      [] r.pc = "awaitPut" -> <<"put">>
      [] r.pc = "awaitInsert" -> <<"insert">>
      [] r.pc \in {"awaitCleanup", "awaitDelRemove"} -> <<"remove">>
      [] r.pc = "awaitList" -> <<"selectByOwner">>
      [] r.pc \in {"awaitDelFetch", "awaitDlFetch"} -> <<"selectOne">>
      [] r.pc = "awaitRowDelete" -> <<"deleteOne">>
      [] r.pc = "awaitSign" -> <<"createSignedUrl">>
      [] OTHER -> <<>>

\* the names of the external calls a request has issued so far, in order
IssuedCalls(r) == [i \in 1..Len(r.calls) |-> r.calls[i].call] \o PendingCall(r)

\* C16: no retries.  Within one request every external call (getUser, the
\* object write, the insert, the compensating removal, the select-one, the
\* object removal, the row delete, the signed-URL request, the listing select)
\* is issued at most once, and after a call that has failed (returned an error
\* or thrown) the request issues no further external call, except for the one
\* compensating removal after an insert that returned an error in Upload and
\* the row delete after an object removal that returned an error in Delete.
C16_NoRetries ==
    \A r \in Requests :
        LET issued == IssuedCalls(r)
        IN /\ \A i, j \in 1..Len(issued) : issued[i] = issued[j] => i = j
           /\ \A i \in 1..Len(r.calls) :
                 r.calls[i].result # "ok" =>
                    \/ Len(issued) = i
                    \/ /\ r.op = "upload"
                       /\ r.calls[i] = Call("insert", r.calls[i].path, "error")
                       /\ SubSeq(issued, i + 1, Len(issued)) = <<"remove">>
                    \/ /\ r.op = "delete"
                       /\ r.calls[i] = Call("remove", r.calls[i].path, "error")
                       /\ SubSeq(issued, i + 1, Len(issued)) = <<"deleteOne">>

\* C16 witness: an Upload whose object write has returned an error has been
\* answered after two calls, getUser and the one write.
C16_Witness ==
    /\ answered # <<>>
    /\ answered[1].op = "upload"
    /\ CallIs(answered[1], 2, "put", "error")
    /\ Len(answered[1].calls) = 2
    /\ answered[1].resp # <<>>

\* the rows of user uA in the table, and the request of uA just answered
RowsOfA == {row \in rows : row.owner_id = "uA"}
AnsweredA == {r \in Answered : r.header = HeaderOf("uA")}

\* the response of a listing that returns rs
ListResp(rs) == Resp(200, <<>>, <<>>, <<>>, <<>>, <<rs>>, <<>>)

\* C17: the lifecycle of a file when every external call succeeds and uA starts
\* with no files.  The upload of uA (a file of size n) is answered with the new
\* row; from then until uA's delete arrives uA has exactly that one row, with
\* file_size = n and its object in the store, and the listing of uA returns
\* exactly that row; a Delete of that id by uB is answered with 404 and leaves
\* the row and the object in place; the Delete of that id by uA is answered with
\* the success and removes the row and the object; every later listing of uA
\* returns the empty sequence.
C17_Lifecycle ==
    /\ \A r \in AnsweredA :
          CASE arrived = 1 ->
                 /\ r.resp # <<>> /\ r.resp[1].status = 201
                 /\ RowsOfA = {r.resp[1].file[1]}
                 /\ r.resp[1].file[1].file_size = r.body[1].size
            [] arrived = 2 ->
                 /\ \E row \in RowsOfA : r.resp = <<ListResp(<<row>>)>>
            [] arrived = 3 ->
                 /\ r.resp = <<DeletedResp>>
                 /\ RowsOfA = {}
                 /\ ~\E path \in objects : path.owner = "uA"
            [] OTHER -> r.resp = <<ListResp(<<>>)>>
    /\ arrived = 2 =>
          /\ Cardinality(RowsOfA) = 1
          /\ \A row \in RowsOfA :
                /\ row.storage_path \in objects
                /\ row.file_size = SizeOfFile[row.original_filename]
    /\ \A r \in Answered :
          (arrived = 2 /\ r.op = "delete" /\ r.header = HeaderOf("uB")
             /\ r.id \in {row.id : row \in RowsOfA}) =>
                r.resp = <<NotFoundResp>>
    /\ arrived > 3 => RowsOfA = {}

\* C17 witness: after the lifecycle, a listing of uA has been answered with the
\* empty sequence while the table holds a row of uB.
C17_Witness ==
    /\ arrived = MaxLife
    /\ \E r \in AnsweredA : r.op = "list" /\ r.resp = <<ListResp(<<>>)>>
    /\ rows # {}

\* C18: a listing of user u that succeeds returns every row with owner_id = u
\* that the table holds, each once and none omitted, ordered by created_at
\* descending; when u has no rows the response is the success with the empty
\* sequence, not an error.
C18_ListComplete ==
    \A r \in Answered :
        (r.op = "list" /\ CallIs(r, 2, "selectByOwner", "ok")) =>
            LET owned == {row \in rows : row.owner_id = r.user[1]}
            IN /\ Len(r.resp) = 1
               /\ r.resp[1].status = 200
               /\ r.resp[1].error = <<>>
               /\ Len(r.resp[1].list) = 1
               /\ LET l == r.resp[1].list[1]
                  IN /\ {l[i] : i \in 1..Len(l)} = owned
                     /\ Len(l) = Cardinality(owned)
                     /\ \A i, j \in 1..Len(l) : i < j => l[i].created_at >= l[j].created_at
               /\ owned = {} => r.resp = <<ListResp(<<>>)>>

\* C18 witness: a listing has returned two rows of its user while the table
\* holds a row of another user as well.
C18_Witness ==
    /\ answered # <<>>
    /\ answered[1].op = "list"
    /\ answered[1].resp[1].list # <<>>
    /\ Len(answered[1].resp[1].list[1]) = 2
    /\ \E row \in rows : row.owner_id # answered[1].user[1]

\* the external calls a Download may issue: none of them reads the object
DownloadCalls == {"getUser", "selectOne", "createSignedUrl"}

\* C19: Upload/Download round trip.  A Download by user u of the id of a row
\* that an Upload of u has inserted requests a signed URL, with an expiry of
\* one hour, for exactly the path the row records, which is a path under u's
\* folder at which an upload has written its bytes; when the store signs it the
\* response carries that URL and nothing else.  The Download issues no call
\* that reads the object: the handler neither reads nor returns file bytes.
C19_RoundTrip ==
    \A r \in Requests :
        r.op = "download" =>
            /\ \A i \in 1..Len(IssuedCalls(r)) : IssuedCalls(r)[i] \in DownloadCalls
            /\ CallIs(r, 2, "selectOne", "ok") =>
                  LET row == r.fileRecord[1]
                      path == row.storage_path
                  IN /\ row.id = r.id
                     /\ row.owner_id = r.user[1]
                     /\ path \in hist.written
                     /\ StartsWithOwner(path, r.user[1])
                     /\ \/ r.pc = "awaitSign" /\ Len(r.calls) = 2
                        \/ /\ r.pc = "done"
                           /\ Len(r.calls) = 3
                           /\ r.calls[3].call = "createSignedUrl"
                           /\ r.calls[3].path = <<path>>
                     /\ CallIs(r, 3, "createSignedUrl", "ok") =>
                           /\ path \in objects
                           /\ r.resp = <<Resp(200, <<>>, <<>>, <<>>, <<>>, <<>>,
                                              <<[path |-> path, expiresIn |-> 3600]>>)>>

\* C19 witness: a Download of an uploaded file has been answered with the
\* signed URL of the object the upload has written.
C19_Witness ==
    /\ answered # <<>>
    /\ answered[1].op = "download"
    /\ CallIs(answered[1], 3, "createSignedUrl", "ok")
    /\ answered[1].resp[1].downloadUrl # <<>>
    /\ answered[1].resp[1].downloadUrl[1].path \in objects
    /\ \E row \in rows : /\ row.id = answered[1].id
                         /\ row.storage_path = answered[1].resp[1].downloadUrl[1].path

\* C20: Upload never replaces existing data.  When the storage upload of an
\* Upload returns, or throws, while an object is in the store at the derived
\* path, the write has failed, the Upload is answered with an error, and it is
\* over: no row is inserted and no removal is issued; the objects of the store,
\* the object at that path among them, and the rows are as they were.
C20_NoOverwrite ==
    [][\A r \in Actors :
          (/\ r.op = "upload"
           /\ Len(r.calls) = 2
           /\ r.calls[2].call = "put"
           /\ r.calls[2].path[1] \in objects) =>
              /\ r.calls[2].result # "ok"
              /\ r.pc = "done"
              /\ Len(r.resp) = 1
              /\ r.resp[1].status = 500
              /\ r.resp[1].error # <<>>
              /\ r.resp[1].file = <<>>
              /\ objects' = objects
              /\ rows' = rows]_vars

\* C20 witness: an Upload whose derived path holds the object of an earlier
\* upload has been answered with the store's refusal; the earlier row and its
\* object are in place.
C20_Witness ==
    /\ answered # <<>>
    /\ answered[1].op = "upload"
    /\ CallIs(answered[1], 2, "put", "error")
    /\ answered[1].resp[1].details = <<ExistsErrMsg>>
    /\ answered[1].calls[2].path[1] \in objects
    /\ \E row \in rows : row.storage_path = answered[1].calls[2].path[1]

\* C21: step ordering and immutability.  In Upload the insert is issued only
\* after the object write has succeeded; in Delete the object removal is issued
\* only after the select-one has found the caller's row, and the row delete
\* only after the removal has returned; and no step changes a field of a row
\* the table holds: a row is inserted or deleted, never updated in place.
C21_OrderingAndImmutability ==
    [][/\ \A r \in Actors :
            LET issued == IssuedCalls(r)
            IN \A i \in 1..Len(issued) :
                  /\ (r.op = "upload" /\ issued[i] = "insert") =>
                        i = 3 /\ CallIs(r, 2, "put", "ok")
                  /\ (r.op = "delete" /\ issued[i] = "remove") =>
                        /\ i = 3
                        /\ CallIs(r, 2, "selectOne", "ok")
                        /\ r.fileRecord # <<>>
                        /\ r.fileRecord[1].id = r.id
                        /\ r.fileRecord[1].owner_id = r.user[1]
                  /\ (r.op = "delete" /\ issued[i] = "deleteOne") =>
                        /\ i = 4
                        /\ r.calls[3].call = "remove"
                        /\ r.calls[3].result # "throw"
       /\ \A old \in rows : \A new \in rows' : old.id = new.id => old = new]_vars

\* C21 witness: a Delete has run its three steps in order (select-one, object
\* removal, row delete) and has been answered.
C21_Witness ==
    /\ answered # <<>>
    /\ answered[1].op = "delete"
    /\ CallIs(answered[1], 2, "selectOne", "ok")
    /\ CallIs(answered[1], 3, "remove", "ok")
    /\ CallIs(answered[1], 4, "deleteOne", "ok")
    /\ answered[1].fileRecord[1] \notin rows

\* C22: Delete is final under concurrency.  Once a Delete of an id by its owner
\* has been answered with the success, under every interleaving with other
\* requests: the table never holds a row with that id again and no listing
\* returns one; and every Delete or Download of that id whose select-one returns
\* afterwards (as that of every request that starts afterwards does) finds no
\* row and is answered with 404 'File not found' (with the generic 500 when the
\* select-one throws), without any removal, row delete or signed URL.
C22_DeleteIsFinal ==
    [][/\ \A row \in rows' : row.id \notin hist'.deleted
       /\ \A r \in Actors :
             /\ r.op = "list" =>
                   \A k \in 1..Len(r.resp) : \A row \in RowsOf(r.resp[k]) :
                       row.id \notin hist'.deleted
             /\ (/\ r.op \in {"delete", "download"}
                 /\ Len(r.calls) = 2
                 /\ r.calls[2].call = "selectOne"
                 /\ r.id \in hist.deleted) =>
                   /\ r.pc = "done"
                   /\ r.lookup # "own"
                   /\ r.resp = <<IF r.calls[2].result = "throw" THEN InternalErrorResp
                                 ELSE NotFoundResp>>]_vars

\* C22 witness: after the owner's Delete of an id has succeeded, a Download of
\* that id by the owner has been answered with 404.
C22_Witness ==
    /\ answered # <<>>
    /\ answered[1].op = "download"
    /\ answered[1].id \in hist.deleted
    /\ answered[1].user = <<"uA">>
    /\ Len(answered[1].calls) = 2
    /\ answered[1].resp = <<NotFoundResp>>

\* C23: single response per request.  On every path through requireAuth and
\* the four handlers, error branches and caught exceptions included, a request
\* that is over has been sent exactly one response; a request that is being
\* served has been sent none, and is at one of the awaits (or in the multipart
\* decoding); so no external call is issued, or pending, once the response has
\* been sent.
C23_SingleResponse ==
    /\ \A r \in Answered :
          /\ r.pc = "done"
          /\ Len(r.resp) = 1
          /\ PendingCall(r) = <<>>
    /\ \A r \in InFlight :
          /\ r.resp = <<>>
          /\ r.pc \in Awaits \cup {"multer"}

\* C23 witness: an Upload has gone through the failed insert and a cleanup
\* that has thrown, and has been answered once, by the handler's catch.
C23_Witness ==
    /\ answered # <<>>
    /\ InsertFailed(answered[1])
    /\ CallIs(answered[1], 4, "remove", "throw")
    /\ answered[1].resp = <<InternalErrorResp>>

\* C24: path agreement in Upload.  The path passed to the object write, the
\* storage_path of the inserted row (the path of the store's reply) and the path
\* the compensating cleanup removes (the locally derived name) are one and the
\* same: the cleanup removes no object but the one its request has written,
\* and the storage_path of a row is a path at which an upload has written, the
\* object being there when the Upload is answered.
C24_PathAgreement ==
    [][/\ \A r \in Actors :
             (r.op = "upload" /\ CallIs(r, 2, "put", "ok")) =>
                LET written == r.calls[2].path
                IN /\ written = r.fileName
                   /\ r.storagePath = written
                   /\ Len(r.calls) >= 3 => r.calls[3].path = written
                   /\ Len(r.calls) = 3 =>
                         /\ rows' \ rows \subseteq {row \in rows' : <<row.storage_path>> = written}
                         /\ UploadSucceeded(r) =>
                               /\ <<r.resp[1].file[1].storage_path>> = written
                               /\ written[1] \in objects'
                   /\ Len(r.calls) = 4 =>
                         /\ r.calls[4].call = "remove"
                         /\ r.calls[4].path = written
                         /\ objects \ objects' \subseteq {written[1]}
       /\ \A row \in rows' : row.storage_path \in hist'.written]_vars

\* C24 witness: the cleanup of an Upload whose insert has failed has removed
\* the object the Upload had written, and an object of another upload is still
\* in the store.
C24_Witness ==
    /\ answered # <<>>
    /\ InsertFailed(answered[1])
    /\ CallIs(answered[1], 4, "remove", "ok")
    /\ answered[1].calls[4].path = answered[1].calls[2].path
    /\ answered[1].calls[2].path[1] \notin objects
    /\ objects # {}

\* C25: List and Download are read-only.  Every step of a List or of a Download
\* request, of whichever caller and with whichever outcome (the listing or the
\* signed URL, 401, 404, 500), leaves the set of metadata rows and the set of
\* stored objects as they were, and issues no call but getUser, the selects
\* and createSignedUrl.
C25_ReadOnly ==
    [][\A r \in Actors :
          r.op \in {"list", "download"} =>
             /\ rows' = rows
             /\ objects' = objects
             /\ \A i \in 1..Len(r.calls) :
                   r.calls[i].call \in {"getUser", "selectByOwner", "selectOne", "createSignedUrl"}]_vars

\* C25 witness: a Download of the owner has been answered with the signed URL
\* of an object, and the row and the object are still there.
C25_Witness ==
    /\ answered # <<>>
    /\ answered[1].op = "download"
    /\ CallIs(answered[1], 3, "createSignedUrl", "ok")
    /\ answered[1].resp[1].status = 200
    /\ answered[1].fileRecord[1] \in rows
    /\ answered[1].fileRecord[1].storage_path \in objects

====
